---- MODULE Spec2Model ----
(***************************************************************************)
(* Model of src/src/app.py: the Slack chat-bot Lambda handler.             *)
(*                                                                         *)
(* One behaviour is one invocation of lambda_handler.  The invocation's    *)
(* inputs (the process-wide STAGE, the api_event with its raw body and     *)
(* headers) are fixed by Init; the answers of the collaborators (the       *)
(* secret store, the clock, the Slack Web API) are chosen when the handler *)
(* asks for them.  Strings are sequences of one-character strings.         *)
(***************************************************************************)
EXTENDS Integers, Sequences, FiniteSets, TLC

VARIABLES
    STAGE,            \* app.py:21, os.environ["STAGE"]
    stageInterned,    \* is the STAGE object the very object of the literal "prod"
    api_event,        \* the argument of lambda_handler
    pc,               \* position of the handler
    secrets,          \* app.py:37
    slack_body_dict,  \* app.py:47
    verifyArgs,       \* the arguments of the running / last verify_request call
    now,              \* what time.time() answered in verify_request (app.py:132)
    verifyLog,        \* results of the verify_request calls that returned
    slack_client,     \* app.py:74, the token the client was built from
    apiCalls,         \* the slack_client.api_call calls made
    responses,        \* the responses the handler returned
    exception,        \* the exception that left the handler, "" if none
    visited           \* the positions the handler has been at, in order

vars == <<STAGE, stageInterned, api_event, pc, secrets, slack_body_dict,
          verifyArgs, now, verifyLog, slack_client, apiCalls, responses,
          exception, visited>>

----------------------------------------------------------------------------
(* Bounds of the model and constants of the program *)

WindowSeconds == 300
BlockSize == 64
MaxTextLen == 2
NowBase == 1000
MaxClockStep == 1

----------------------------------------------------------------------------
(* Strings *)

Str1 == {"a", "b"}
NUL == "NUL"
NonAscii == "U+00E9"

Texts == UNION {[1..n -> Str1] : n \in 0..MaxTextLen}
Channels == {<<"C", "1">>, <<"C", "2">>}
Challenges == {<<"a">>, <<"a", "b">>}
BotIds == {<<"B", "1">>}
Tokens == {<<"x", "o", "x", "b">>}
SigningSecrets == {<<"k">>, <<"k", NUL>>, <<"j">>}

DigitChars == <<"0", "1", "2", "3", "4", "5", "6", "7", "8", "9">>

RECURSIVE ToDecimal(_)
ToDecimal(n) ==
    IF n < 10 THEN <<DigitChars[n + 1]>>
    ELSE ToDecimal(n \div 10) \o <<DigitChars[(n % 10) + 1]>>

IsDigit(c) == \E i \in 1..10 : DigitChars[i] = c
DigitValue(c) == (CHOOSE i \in 1..10 : DigitChars[i] = c) - 1

RECURSIVE DecValue(_)
DecValue(s) ==
    IF s = <<>> THEN 0
    ELSE 10 * DecValue(SubSeq(s, 1, Len(s) - 1)) + DigitValue(s[Len(s)])

\* float(slack_timestamp): a decimal number, "nan", or ValueError
ParseFloat(s) ==
    IF s = <<"n", "a", "n">> THEN [kind |-> "nan", val |-> 0]
    ELSE IF s # <<>> /\ \A i \in 1..Len(s) : IsDigit(s[i])
         THEN [kind |-> "num", val |-> DecValue(s)]
         ELSE [kind |-> "ValueError", val |-> 0]

Abs(x) == IF x < 0 THEN -x ELSE x

\* text[::-1]
RECURSIVE Reverse(_)
Reverse(s) == IF s = <<>> THEN <<>> ELSE Reverse(Tail(s)) \o <<Head(s)>>

----------------------------------------------------------------------------
(* HMAC and the signature strings *)

\* str.encode('utf-8'), bytes(s, 'utf-8')
Utf8Char(c) == IF c = NonAscii THEN <<"0xC3", "0xA9">> ELSE <<c>>

RECURSIVE Utf8(_)
Utf8(s) == IF s = <<>> THEN <<>> ELSE Utf8Char(Head(s)) \o Utf8(Tail(s))

Zeros(n) == [i \in 1..n |-> NUL]

\* The key block of HMAC (RFC 2104): a key longer than the block is hashed,
\* a shorter one is padded with zero bytes up to the block size.
KeyBlock(key) ==
    IF Len(key) > BlockSize
    THEN [hashed |-> TRUE, bytes |-> key]
    ELSE [hashed |-> FALSE, bytes |-> key \o Zeros(BlockSize - Len(key))]

\* hmac.new(key, msg, hashlib.sha256).hexdigest(), SHA-256 taken as
\* collision-free: the digest stands for the pair it was computed from.
HmacSha256Hex(key, msg) == [key |-> KeyBlock(key), msg |-> msg]

\* A signature string: literal characters followed by hex digests.
V0Eq == <<"v", "0", "=">>
V0Colon == <<"v", "0", ":">>

SigString(chars, hex) == [chars |-> chars, hex |-> hex]

EmptySig == SigString(<<>>, <<>>)
GarbageSig == SigString(<<"v", "0", "=", "a">>, <<>>)
NonAsciiSig == SigString(<<"v", "0", "=", NonAscii>>, <<>>)

\* The base string left without its timestamp.
MySignatureNoTimestamp(slack_timestamp, slack_event_body, app_signing_secret) ==
    SigString(V0Eq, <<HmacSha256Hex(Utf8(app_signing_secret),
                                    Utf8(V0Colon \o <<":">> \o slack_event_body))>>)

\* app.py:136-138
my_signature(slack_timestamp, slack_event_body, app_signing_secret) ==
    SigString(V0Eq, <<HmacSha256Hex(Utf8(app_signing_secret),
                                    Utf8(V0Colon \o slack_timestamp \o <<":">>
                                         \o slack_event_body))>>)

\* What the sender puts in X-Slack-Signature when it signs with `secret`.
SlackSignature(secret, timestamp, body) ==
    SigString(<<"v", "0", "=">>,
              <<HmacSha256Hex(Utf8(secret),
                              Utf8(<<"v", "0", ":">> \o timestamp \o <<":">> \o body))>>)

IsAscii(sig) == \A i \in 1..Len(sig.chars) : sig.chars[i] # NonAscii

\* hmac.compare_digest(a, b) on str arguments
CompareDigest(a, b) ==
    IF IsAscii(a) /\ IsAscii(b) THEN (IF a = b THEN "True" ELSE "False")
    ELSE "TypeError"

\* The window check done with >= .
WindowExceededInclusive(t, f) ==
    f.kind = "num" /\ Abs(t - f.val) >= WindowSeconds

\* app.py:132, abs(time.time() - float(slack_timestamp)) > 60 * 5;
\* every comparison with nan is false.
WindowExceeded(t, f) ==
    f.kind = "num" /\ Abs(t - f.val) > WindowSeconds

----------------------------------------------------------------------------
(* Dictionaries: `keys` holds the keys present; an absent field is <<>>. *)

NoEvent == [keys |-> {}, text |-> <<>>, channel |-> <<>>]

Event(ks, t, c) ==
    [keys |-> ks,
     text |-> IF "text" \in ks THEN t ELSE <<>>,
     channel |-> IF "channel" \in ks THEN c ELSE <<>>]

Events == {Event(ks, t, c) : ks \in SUBSET {"text", "channel"},
                             t \in Texts, c \in Channels}

FixedEvent == Event({"text", "channel"}, <<"a">>, <<"C", "1">>)

Body(ks, ch, b, e) ==
    [keys |-> ks,
     challenge |-> IF "challenge" \in ks THEN ch ELSE <<>>,
     bot_id |-> IF "bot_id" \in ks THEN b ELSE <<>>,
     event |-> IF "event" \in ks THEN e ELSE NoEvent]

\* The parsed bodies of the model: every event shape for a user message,
\* a few for challenge and bot bodies.
BodyDicts ==
    {Body(ks, ch, b, e) : ks \in SUBSET {"challenge", "bot_id", "event"},
                          ch \in Challenges, b \in BotIds,
                          e \in {NoEvent, FixedEvent}}
    \cup {Body(ks, <<>>, b, e) : ks \in {{"event"}}, b \in BotIds, e \in Events}

RECURSIVE Join(_)
Join(members) ==
    IF members = <<>> THEN <<>>
    ELSE IF Len(members) = 1 THEN members[1]
    ELSE members[1] \o <<",">> \o Join(Tail(members))

DumpStr(s) == <<"\"">> \o s \o <<"\"">>
Member(d, key, val) ==
    IF key \in d.keys THEN <<DumpStr(<<key>>) \o <<":">> \o val>> ELSE <<>>

DumpEvent(e) ==
    <<"{">> \o Join(Member(e, "text", DumpStr(e.text))
                    \o Member(e, "channel", DumpStr(e.channel))) \o <<"}">>

\* The JSON text of a body, as the sender serialises it.
Dumps(d) ==
    <<"{">> \o Join(Member(d, "challenge", DumpStr(d.challenge))
                    \o Member(d, "bot_id", DumpStr(d.bot_id))
                    \o Member(d, "event", DumpEvent(d.event))) \o <<"}">>

MalformedRaw == <<"{">>
RawBodies == {Dumps(d) : d \in BodyDicts} \cup {MalformedRaw}

\* json.loads(slack_body_raw), app.py:47
Loads(raw) ==
    IF \E d \in BodyDicts : Dumps(d) = raw
    THEN [ok |-> TRUE, value |-> CHOOSE d \in BodyDicts : Dumps(d) = raw]
    ELSE [ok |-> FALSE, value |-> Body({}, <<>>, <<>>, NoEvent)]

----------------------------------------------------------------------------
(* The request and the secrets *)

SIG == "X-Slack-Signature"
TS == "X-Slack-Request-Timestamp"

\* Epoch seconds around the clock of the model: at the edges of the window.
TimestampValues ==
    {NowBase + d : d \in {0 - (WindowSeconds + 1), 0 - WindowSeconds, 0,
                          WindowSeconds, WindowSeconds + 1}}

TimestampStrings ==
    {ToDecimal(n) : n \in TimestampValues} \cup {<<"a", "b", "c">>, <<"n", "a", "n">>}

Headers(ks, sig, ts) ==
    [keys |-> ks,
     sig |-> IF SIG \in ks THEN sig ELSE EmptySig,
     ts |-> IF TS \in ks THEN ts ELSE <<>>]

HeadersFor(raw) ==
    {Headers({SIG, TS}, sig, ts) :
        sig \in {EmptySig, GarbageSig, NonAsciiSig}, ts \in TimestampStrings}
    \cup {Headers({SIG, TS}, SlackSignature(s, ts, raw), ts) :
        s \in SigningSecrets, ts \in TimestampStrings}
    \cup {Headers({TS}, EmptySig, ToDecimal(NowBase)),
          Headers({SIG}, GarbageSig, <<>>),
          Headers({}, EmptySig, <<>>)}

ApiEvents ==
    UNION {{[body |-> raw, headers |-> h] : h \in HeadersFor(raw)} : raw \in RawBodies}

SecretDict(ks, s, t) ==
    [type |-> "dict", keys |-> ks,
     SIGNING_SECRET |-> IF "SIGNING_SECRET" \in ks THEN s ELSE <<>>,
     BOT_TOKEN |-> IF "BOT_TOKEN" \in ks THEN t ELSE <<>>]

NoSecrets == [type |-> "none", keys |-> {}, SIGNING_SECRET |-> <<>>, BOT_TOKEN |-> <<>>]
SecretList == [type |-> "list", keys |-> {}, SIGNING_SECRET |-> <<>>, BOT_TOKEN |-> <<>>]

\* What json.loads(helpers.get_secrets(SECRETS_NAME)) can evaluate to.
SecretValues ==
    {SecretDict({"SIGNING_SECRET", "BOT_TOKEN"}, s, t) : s \in SigningSecrets, t \in Tokens}
    \cup {SecretDict({"SIGNING_SECRET"}, <<"k">>, <<>>)}
    \cup {SecretDict({"BOT_TOKEN"}, <<>>, t) : t \in Tokens}
    \cup {SecretList}

----------------------------------------------------------------------------
(* The handler *)

\* helpers.form_response(status, body): the status code with the body, the
\* body being the set of the key/value pairs of the JSON object.
FormResponse(status, body) == [statusCode |-> status, body |-> body]

BadRequestSignature == {<<"Error", <<"Bad Request Signature">>>>}
EmptyBody == {}
ChallengeBody(v) == {<<"challenge", v>>}

NoCall == [called |-> FALSE, slack_signature |-> EmptySig, slack_timestamp |-> <<>>,
           slack_event_body |-> <<>>, app_signing_secret |-> <<>>]
NoClient == [built |-> FALSE, token |-> <<>>]

Init ==
    /\ STAGE \in {"prod", "dev"}
    /\ stageInterned \in BOOLEAN
    /\ stageInterned => STAGE = "prod"
    /\ api_event \in ApiEvents
    /\ pc = "fetch_secrets"
    /\ secrets = NoSecrets
    /\ slack_body_dict = Body({}, <<>>, <<>>, NoEvent)
    /\ verifyArgs = NoCall
    /\ now = 0
    /\ verifyLog = <<>>
    /\ slack_client = NoClient
    /\ apiCalls = <<>>
    /\ responses = <<>>
    /\ exception = ""
    /\ visited = <<"fetch_secrets">>

Raise(e) == pc' = "raised" /\ exception' = e

\* The verification done whatever the stage.
ShouldVerifyAlways(stage, interned) == TRUE

\* app.py:51, STAGE is "prod": an identity test.  Two strings that differ
\* are never the same object; two equal strings are the same object only if
\* the interpreter shares them, which it does not for a value decoded from
\* os.environ and may for a value assigned from a literal.
ShouldVerify(stage, interned) == stage = "prod" /\ interned

\* A challenge looked for nowhere.
IsChallengeNever(slack_event_body) == FALSE

\* app.py:101-113
is_challenge(slack_event_body) == "challenge" \in slack_event_body.keys

\* The 400 response built but not returned.
VerifyOutcomeNoReturn(ok) ==
    IF ok THEN [pc |-> "classify", resp |-> <<>>]
    ELSE [pc |-> "classify", resp |-> <<FormResponse(400, BadRequestSignature)>>]

\* app.py:53-55, what the handler does with the result of verify_request
VerifyOutcome(ok) ==
    IF ok THEN [pc |-> "classify", resp |-> <<>>]
    ELSE [pc |-> "returned", resp |-> <<FormResponse(400, BadRequestSignature)>>]

\* The text sent back as it came.
ReversedTextUnchanged(text) == text

\* app.py:85, text[::-1]
reversed_text(text) == Reverse(text)

\* app.py:37-39
FetchSecrets ==
    /\ pc = "fetch_secrets"
    /\ \/ /\ \E e \in {"ClientError", "JSONDecodeError"} : Raise(e)
          /\ UNCHANGED secrets
       \/ \E v \in SecretValues :
            IF v.type # "dict"
            THEN Raise("TypeError") /\ UNCHANGED secrets
            ELSE secrets' = v /\ pc' = "parse" /\ UNCHANGED exception
    /\ UNCHANGED <<STAGE, stageInterned, api_event, slack_body_dict, verifyArgs,
                   now, verifyLog, slack_client, apiCalls, responses>>
    /\ visited' = Append(visited, pc')

\* app.py:46-48
ParseRequest ==
    /\ pc = "parse"
    /\ LET parsed == Loads(api_event.body) IN
         IF parsed.ok
         THEN slack_body_dict' = parsed.value /\ pc' = "stage_check"
              /\ UNCHANGED exception
         ELSE Raise("JSONDecodeError") /\ UNCHANGED slack_body_dict
    /\ UNCHANGED <<STAGE, stageInterned, api_event, secrets, verifyArgs, now,
                   verifyLog, slack_client, apiCalls, responses>>
    /\ visited' = Append(visited, pc')

\* app.py:51-54, the stage test and the arguments of verify_request
StageCheck ==
    /\ pc = "stage_check"
    /\ IF ShouldVerify(STAGE, stageInterned)
       THEN IF \/ SIG \notin api_event.headers.keys
               \/ TS \notin api_event.headers.keys
               \/ "SIGNING_SECRET" \notin secrets.keys
            THEN Raise("KeyError") /\ UNCHANGED verifyArgs
            ELSE /\ verifyArgs' = [called |-> TRUE,
                                   slack_signature |-> api_event.headers.sig,
                                   slack_timestamp |-> api_event.headers.ts,
                                   slack_event_body |-> api_event.body,
                                   app_signing_secret |-> secrets.SIGNING_SECRET]
                 /\ pc' = "verify_window"
                 /\ UNCHANGED exception
       ELSE pc' = "classify" /\ UNCHANGED <<verifyArgs, exception>>
    /\ UNCHANGED <<STAGE, stageInterned, api_event, secrets, slack_body_dict, now,
                   verifyLog, slack_client, apiCalls, responses>>
    /\ visited' = Append(visited, pc')

\* app.py:132-135, verify_request: the replay window
VerifyWindow ==
    /\ pc = "verify_window"
    /\ \E t \in NowBase..(NowBase + MaxClockStep) :
         LET f == ParseFloat(verifyArgs.slack_timestamp) IN
           /\ now' = t
           /\ IF f.kind = "ValueError"
              THEN Raise("ValueError") /\ UNCHANGED verifyLog
              ELSE IF WindowExceeded(t, f)
                   THEN /\ verifyLog' = Append(verifyLog, FALSE)
                        /\ pc' = "verify_returned"
                        /\ UNCHANGED exception
                   ELSE pc' = "verify_signature" /\ UNCHANGED <<verifyLog, exception>>
    /\ UNCHANGED <<STAGE, stageInterned, api_event, secrets, slack_body_dict,
                   verifyArgs, slack_client, apiCalls, responses>>
    /\ visited' = Append(visited, pc')

\* app.py:136-143, verify_request: the signature
VerifySignature ==
    /\ pc = "verify_signature"
    /\ LET r == CompareDigest(my_signature(verifyArgs.slack_timestamp,
                                            verifyArgs.slack_event_body,
                                            verifyArgs.app_signing_secret),
                               verifyArgs.slack_signature)
       IN IF r = "TypeError"
          THEN Raise("TypeError") /\ UNCHANGED verifyLog
          ELSE /\ verifyLog' = Append(verifyLog, r = "True")
               /\ pc' = "verify_returned"
               /\ UNCHANGED exception
    /\ UNCHANGED <<STAGE, stageInterned, api_event, secrets, slack_body_dict,
                   verifyArgs, now, slack_client, apiCalls, responses>>
    /\ visited' = Append(visited, pc')

\* app.py:53-55
AfterVerify ==
    /\ pc = "verify_returned"
    /\ LET o == VerifyOutcome(verifyLog[Len(verifyLog)]) IN
         /\ pc' = o.pc
         /\ responses' = responses \o o.resp
    /\ UNCHANGED <<STAGE, stageInterned, api_event, secrets, slack_body_dict,
                   verifyArgs, now, verifyLog, slack_client, apiCalls, exception>>
    /\ visited' = Append(visited, pc')

\* app.py:60-64
Classify ==
    /\ pc = "classify"
    /\ IF is_challenge(slack_body_dict)
       THEN /\ responses' = Append(responses,
                                   FormResponse(200, ChallengeBody(slack_body_dict.challenge)))
            /\ pc' = "returned"
       ELSE pc' = "get_event" /\ UNCHANGED responses
    /\ UNCHANGED <<STAGE, stageInterned, api_event, secrets, slack_body_dict,
                   verifyArgs, now, verifyLog, slack_client, apiCalls, exception>>
    /\ visited' = Append(visited, pc')

\* app.py:69
GetEvent ==
    /\ pc = "get_event"
    /\ IF "event" \in slack_body_dict.keys
       THEN pc' = "build_client" /\ UNCHANGED exception
       ELSE Raise("KeyError")
    /\ UNCHANGED <<STAGE, stageInterned, api_event, secrets, slack_body_dict,
                   verifyArgs, now, verifyLog, slack_client, apiCalls, responses>>
    /\ visited' = Append(visited, pc')

\* app.py:74
BuildClient ==
    /\ pc = "build_client"
    /\ IF "BOT_TOKEN" \in secrets.keys
       THEN /\ slack_client' = [built |-> TRUE, token |-> secrets.BOT_TOKEN]
            /\ pc' = "reply"
            /\ UNCHANGED exception
       ELSE Raise("KeyError") /\ UNCHANGED slack_client
    /\ UNCHANGED <<STAGE, stageInterned, api_event, secrets, slack_body_dict,
                   verifyArgs, now, verifyLog, apiCalls, responses>>
    /\ visited' = Append(visited, pc')

\* app.py:79-95; the call itself returns or raises
Reply ==
    /\ pc = "reply"
    /\ LET slack_event_dict == slack_body_dict.event IN
         IF "bot_id" \in slack_body_dict.keys
         THEN pc' = "respond" /\ UNCHANGED <<apiCalls, exception>>
         ELSE IF "text" \notin slack_event_dict.keys \/ "channel" \notin slack_event_dict.keys
              THEN Raise("KeyError") /\ UNCHANGED apiCalls
              ELSE /\ apiCalls' = Append(apiCalls,
                                         [method |-> "chat.postMessage",
                                          channel |-> slack_event_dict.channel,
                                          text |-> reversed_text(slack_event_dict.text),
                                          token |-> slack_client.token])
                   /\ \/ pc' = "respond" /\ UNCHANGED exception
                      \/ Raise("ConnectionError")
    /\ UNCHANGED <<STAGE, stageInterned, api_event, secrets, slack_body_dict,
                   verifyArgs, now, verifyLog, slack_client, responses>>
    /\ visited' = Append(visited, pc')

\* app.py:98
Respond ==
    /\ pc = "respond"
    /\ responses' = Append(responses, FormResponse(200, EmptyBody))
    /\ pc' = "returned"
    /\ UNCHANGED <<STAGE, stageInterned, api_event, secrets, slack_body_dict,
                   verifyArgs, now, verifyLog, slack_client, apiCalls, exception>>
    /\ visited' = Append(visited, pc')

Next ==
    \/ FetchSecrets
    \/ ParseRequest
    \/ StageCheck
    \/ VerifyWindow
    \/ VerifySignature
    \/ AfterVerify
    \/ Classify
    \/ GetEvent
    \/ BuildClient
    \/ Reply
    \/ Respond

Spec == Init /\ [][Next]_vars

Terminated == pc \in {"returned", "raised"}

----------------------------------------------------------------------------
(* Vocabulary of the properties *)

Reached(p) == \E i \in 1..Len(visited) : visited[i] = p

Headers_ == api_event.headers
BothHeaders == {SIG, TS} \subseteq Headers_.keys

\* The timestamp header is a decimal number of epoch seconds.
NumericTimestamp == \E n \in TimestampValues : Headers_.ts = ToDecimal(n)
TimestampValue == CHOOSE n \in TimestampValues : Headers_.ts = ToDecimal(n)

\* Both headers present, the timestamp a decimal number, the signature ASCII.
WellFormedHeaders == BothHeaders /\ NumericTimestamp /\ IsAscii(Headers_.sig)

FullSecrets == {"SIGNING_SECRET", "BOT_TOKEN"} \subseteq secrets.keys

\* The header carries the signature made with `s` of this timestamp and body.
SignedWith(s) == Headers_.sig = SlackSignature(s, Headers_.ts, api_event.body)

\* A string read backwards.
Backwards(t) == [i \in 1..Len(t) |-> t[Len(t) + 1 - i]]

\* A key without the zero bytes at its end.
RECURSIVE StripNul(_)
StripNul(s) ==
    IF s # <<>> /\ s[Len(s)] = NUL THEN StripNul(SubSeq(s, 1, Len(s) - 1)) ELSE s

VerifyReturned == verifyArgs.called /\ Len(verifyLog) = 1
Distance == Abs(now - TimestampValue)

Ok200(body) == FormResponse(200, body)
Has200 == \E i \in 1..Len(responses) : responses[i].statusCode = 200

IsUserMessage ==
    /\ Reached("stage_check")
    /\ slack_body_dict.keys = {"event"}
    /\ slack_body_dict.event.keys = {"text", "channel"}

ExpectedCall ==
    [method |-> "chat.postMessage",
     channel |-> slack_body_dict.event.channel,
     text |-> Backwards(slack_body_dict.event.text),
     token |-> secrets.BOT_TOKEN]

----------------------------------------------------------------------------
(* C1 *)

\* C1: a production invocation (STAGE has the value "prod") whose
\* X-Slack-Signature is not the signature computed from the timestamp, the
\* raw body and SIGNING_SECRET ends with the single response 400
\* {"Error": "Bad Request Signature"} and without a chat.postMessage call.
\* Stated for requests with a JSON body and well-formed headers.
C1_BadSignatureRejected ==
    (/\ STAGE = "prod"
     /\ Terminated
     /\ Reached("stage_check")
     /\ WellFormedHeaders
     /\ "SIGNING_SECRET" \in secrets.keys
     /\ ~SignedWith(secrets.SIGNING_SECRET))
    => /\ pc = "returned"
       /\ responses = <<FormResponse(400, BadRequestSignature)>>
       /\ apiCalls = <<>>

----------------------------------------------------------------------------
(* C2 *)

\* C2: a parsed body with a top-level "bot_id" and no "challenge", with or
\* without an "event", ends with the single response 200 {} and without a
\* chat.postMessage call.  Stated for invocations outside production whose
\* secrets hold both keys.
C2_BotEventIgnored ==
    (/\ STAGE # "prod"
     /\ Terminated
     /\ Reached("stage_check")
     /\ FullSecrets
     /\ "bot_id" \in slack_body_dict.keys
     /\ "challenge" \notin slack_body_dict.keys)
    => /\ pc = "returned"
       /\ responses = <<Ok200(EmptyBody)>>
       /\ apiCalls = <<>>

----------------------------------------------------------------------------
(* C3 *)

\* C3: verify_request never throws: once called it returns a boolean, and
\* it returns False for a timestamp that is no number and for an empty
\* signature.
C3_VerifyFailsClosed ==
    (verifyArgs.called /\ Terminated)
    => /\ Len(verifyLog) = 1
       /\ (~NumericTimestamp \/ Headers_.sig = EmptySig) => verifyLog[1] = FALSE

----------------------------------------------------------------------------
(* C4 *)

\* C4 as stated: every invocation ends with exactly one response.
C4_ExactlyOneResponse == Terminated => Len(responses) = 1

\* C4 as amended: an invocation never produces more than one response; it
\* has produced exactly one when it returns and none when an exception
\* leaves the handler.
C4_OneResponseOrException ==
    /\ Len(responses) <= 1
    /\ pc = "returned" => Len(responses) = 1 /\ exception = ""
    /\ pc = "raised" => responses = <<>> /\ exception # ""
    /\ ~Terminated => responses = <<>>

C4_Witness ==
    /\ pc = "returned"
    /\ verifyLog = <<FALSE>>
    /\ responses = <<FormResponse(400, BadRequestSignature)>>

----------------------------------------------------------------------------
(* C5 *)

\* C5 as stated: for a timestamp at most 300 seconds from now and the
\* signature made with a secret s, verify_request returns True when the
\* verifier's secret is s and False when it is any other secret.
C5_MatchingSecretOnly ==
    \A s \in SigningSecrets :
        (VerifyReturned /\ NumericTimestamp /\ Distance <= WindowSeconds /\ SignedWith(s))
        => (verifyLog[1] <=> verifyArgs.app_signing_secret = s)

\* C5 as amended: ... returns True when the verifier's secret is s or
\* differs from s only by zero bytes at the end, and False for every other
\* secret.
C5_MatchingKeyOnly ==
    \A s \in SigningSecrets :
        (VerifyReturned /\ NumericTimestamp /\ Distance <= WindowSeconds /\ SignedWith(s))
        => (verifyLog[1] <=> StripNul(verifyArgs.app_signing_secret) = StripNul(s))

C5_Witness ==
    /\ VerifyReturned
    /\ NumericTimestamp
    /\ Distance <= WindowSeconds
    /\ verifyArgs.app_signing_secret = <<"j">>
    /\ SignedWith(<<"j">>)
    /\ verifyLog = <<TRUE>>

----------------------------------------------------------------------------
(* C6 *)

\* C6: for a timestamp more than 300 seconds from now, in the past or in
\* the future, verify_request returns False also when the signature is the
\* right one; a timestamp exactly 300 seconds from now passes the window
\* check, so that the right signature is accepted.
C6_ReplayWindow ==
    (VerifyReturned /\ NumericTimestamp)
    => /\ Distance > WindowSeconds => verifyLog[1] = FALSE
       /\ (Distance = WindowSeconds /\ SignedWith(verifyArgs.app_signing_secret))
          => verifyLog[1] = TRUE

C6_Witness ==
    /\ VerifyReturned
    /\ NumericTimestamp
    /\ Distance > WindowSeconds
    /\ SignedWith(verifyArgs.app_signing_secret)
    /\ verifyLog = <<FALSE>>

----------------------------------------------------------------------------
(* C7 *)

\* C7 as stated: every parsed body with a top-level "challenge" of value v
\* ends with the single response 200 {"challenge": v}, no Slack client
\* built and no call made.  Stated for requests with well-formed headers
\* and secrets holding both keys.
C7_ChallengeAlwaysEchoed ==
    (/\ Terminated
     /\ Reached("stage_check")
     /\ WellFormedHeaders
     /\ FullSecrets
     /\ "challenge" \in slack_body_dict.keys)
    => /\ pc = "returned"
       /\ responses = <<Ok200(ChallengeBody(slack_body_dict.challenge))>>
       /\ ~slack_client.built
       /\ apiCalls = <<>>

\* C7 as amended: every invocation that reaches the classification (the
\* verification was skipped or verify_request returned True) with a body
\* holding a top-level "challenge" of value v ends with the single response
\* 200 {"challenge": v}, no Slack client built and no call made, also when
\* the body holds "bot_id" or "event".
C7_ChallengeEchoed ==
    (/\ Terminated
     /\ Reached("classify")
     /\ "challenge" \in slack_body_dict.keys)
    => /\ pc = "returned"
       /\ responses = <<Ok200(ChallengeBody(slack_body_dict.challenge))>>
       /\ ~slack_client.built
       /\ apiCalls = <<>>

C7_Witness ==
    /\ pc = "returned"
    /\ slack_body_dict.keys = {"challenge", "bot_id", "event"}
    /\ slack_body_dict.challenge = <<"a", "b">>
    /\ responses = <<Ok200(ChallengeBody(<<"a", "b">>))>>

----------------------------------------------------------------------------
(* C8 *)

\* C8 as stated: every user message event with text t and channel c ends
\* with exactly one chat.postMessage call, to c, with t read backwards, by
\* the client built from BOT_TOKEN, and with the single response 200 {}.
\* Stated for requests with well-formed headers and secrets holding both
\* keys.
C8_AlwaysReplied ==
    (/\ Terminated
     /\ IsUserMessage
     /\ WellFormedHeaders
     /\ FullSecrets)
    => /\ apiCalls = <<ExpectedCall>>
       /\ pc = "returned"
       /\ responses = <<Ok200(EmptyBody)>>

\* C8 as amended: every invocation that reaches the classification with a
\* user message event of text t and channel c, and with secrets holding
\* BOT_TOKEN, makes exactly one chat.postMessage call, to c, with t read
\* backwards (reversing it again gives t), by the client built from
\* BOT_TOKEN; when the call returns the handler returns 200 {}, when it
\* raises the exception leaves the handler and there is no response.
C8_UserMessageReplied ==
    (/\ Terminated
     /\ Reached("classify")
     /\ IsUserMessage
     /\ "BOT_TOKEN" \in secrets.keys)
    => /\ apiCalls = <<ExpectedCall>>
       /\ Backwards(apiCalls[1].text) = slack_body_dict.event.text
       /\ \/ pc = "returned" /\ responses = <<Ok200(EmptyBody)>>
          \/ pc = "raised" /\ exception = "ConnectionError" /\ responses = <<>>

C8_Witness ==
    /\ pc = "returned"
    /\ IsUserMessage
    /\ slack_body_dict.event.text = <<"a", "b">>
    /\ apiCalls = <<[method |-> "chat.postMessage", channel |-> <<"C", "2">>,
                     text |-> <<"b", "a">>, token |-> <<"x", "o", "x", "b">>]>>
    /\ responses = <<Ok200(EmptyBody)>>

----------------------------------------------------------------------------
(* C9 *)

\* What an invocation that skips the verification ends with, read off the
\* parsed body, the secrets and the fate of the dispatch alone.
UnverifiedOutcome ==
    IF "challenge" \in slack_body_dict.keys
    THEN /\ pc = "returned"
         /\ responses = <<Ok200(ChallengeBody(slack_body_dict.challenge))>>
         /\ apiCalls = <<>>
    ELSE IF "event" \notin slack_body_dict.keys \/ "BOT_TOKEN" \notin secrets.keys
    THEN pc = "raised" /\ exception = "KeyError" /\ responses = <<>> /\ apiCalls = <<>>
    ELSE IF "bot_id" \in slack_body_dict.keys
    THEN pc = "returned" /\ responses = <<Ok200(EmptyBody)>> /\ apiCalls = <<>>
    ELSE IF slack_body_dict.event.keys # {"text", "channel"}
    THEN pc = "raised" /\ exception = "KeyError" /\ responses = <<>> /\ apiCalls = <<>>
    ELSE /\ apiCalls = <<ExpectedCall>>
         /\ \/ pc = "returned" /\ responses = <<Ok200(EmptyBody)>>
            \/ pc = "raised" /\ exception = "ConnectionError" /\ responses = <<>>

\* C9: outside production verify_request is never invoked, a request whose
\* body parsed always goes on to the classification, and what the
\* invocation ends with does not depend on the X-Slack-Signature and
\* X-Slack-Request-Timestamp headers, present or not, valid or not.
C9_NoVerificationOutsideProd ==
    STAGE # "prod"
    => /\ ~verifyArgs.called
       /\ verifyLog = <<>>
       /\ ~Reached("verify_window")
       /\ (Terminated /\ Reached("stage_check"))
          => Reached("classify") /\ UnverifiedOutcome

C9_Witness ==
    /\ STAGE = "dev"
    /\ pc = "returned"
    /\ Headers_.sig = GarbageSig
    /\ Headers_.ts = <<"a", "b", "c">>
    /\ Len(apiCalls) = 1
    /\ responses = <<Ok200(EmptyBody)>>

----------------------------------------------------------------------------
(* C10 *)

\* C10: in a production invocation a chat.postMessage call, a challenge
\* echo or any 200 response happens only after verify_request has returned
\* True in that invocation.
C10_VerifiedBeforeSuccess ==
    (STAGE = "prod" /\ (apiCalls # <<>> \/ Has200))
    => verifyLog = <<TRUE>>

====
